---- MODULE Spec2Model ----
(***************************************************************************)
(* Model of bot.py: the pump.fun creation tracker.  One asyncio task runs  *)
(* ws_listener, which awaits handle_create inline for every creation log   *)
(* message; the Telegram dispatcher runs the command handlers on the same  *)
(* event loop, so a command can run at every await of the listener task.   *)
(* The nested f-string of line 150 holds a backslash, so the module loads  *)
(* on Python 3.12 or later only; the model is of the program run there.    *)
(***************************************************************************)
EXTENDS Integers, Sequences, FiniteSets, TLC

\* ------------------------------------------------------------------ bounds
\* Number of log messages the subscription delivers in a behaviour.
MaxMsgs == 3
\* Number of command replies the dispatcher sends in a behaviour.
MaxCmds == 1

\* --------------------------------------------------------- program constants
\* CREATE_DISC, bot.py line 36.
CREATE_DISC == <<24, 30, 200, 40, 5, 28, 7, 119>>
\* The placeholder handle_create assigns to ca, bot.py line 136.
PARSE_MINT_HERE == "PARSE_MINT_HERE"
\* YOUR_TELEGRAM_ID, bot.py line 19 (read from the environment).
YOUR_ID == 1
\* Slice offsets of the create payload, bot.py lines 125-130.
DiscEnd == 8
NameEnd == 40
SymbolEnd == 72
UriStart == 76
\* Lamports per SOL, bot.py line 88.
LamportsPerSol == 1000000000
\* The dev-risk threshold in SOL, bot.py line 89.
RichSol == 5

Min(a, b) == IF a < b THEN a ELSE b

\* ------------------------------------------------------------ Python bytes
\* b[lo:hi] for 0-based lo <= hi: Python clamps both ends to len(b) and never raises.
Slice(b, lo, hi) ==
  LET l == Min(lo, Len(b))
      h == Min(hi, Len(b))
  IN IF l >= h THEN <<>> ELSE SubSeq(b, l + 1, h)

\* str.rstrip('\x00') on the UTF-8 form of the string: what is left of the
\* last byte that is not NUL goes.
RStripNul(b) ==
  LET keep == {i \in 1..Len(b) : b[i] # 0}
      last == IF keep = {} THEN 0 ELSE CHOOSE i \in keep : \A j \in keep : j <= i
  IN SubSeq(b, 1, last)

\* int.from_bytes(b, 'little'); the empty slice gives 0.
RECURSIVE IntFromBytesLE(_)
IntFromBytesLE(b) ==
  IF Len(b) = 0 THEN 0 ELSE b[1] + 256 * IntFromBytesLE(Tail(b))

\* The length of the UTF-8 sequence a lead byte opens; 0 for a byte that opens none.
Utf8SeqLen(c) ==
  IF c < 128 THEN 1
  ELSE IF c >= 194 /\ c <= 223 THEN 2
  ELSE IF c >= 224 /\ c <= 239 THEN 3
  ELSE IF c >= 240 /\ c <= 244 THEN 4
  ELSE 0

Utf8IsCont(c) == c >= 128 /\ c <= 191

\* Whether bytes.decode('utf-8') succeeds (strict decoding): every byte that is
\* not a continuation byte opens a sequence that is complete and well-formed,
\* and every continuation byte belongs to one.
Utf8Valid(b) ==
  \A i \in 1..Len(b) :
    LET c == b[i]
        n == Utf8SeqLen(c)
    IN IF Utf8IsCont(c)
         THEN \E back \in 1..3 :
                /\ i - back >= 1
                /\ Utf8SeqLen(b[i - back]) > back
                /\ \A m \in (i - back + 1)..(i - 1) : Utf8IsCont(b[m])
         ELSE /\ n > 0
              /\ i + n - 1 <= Len(b)
              /\ \A m \in (i + 1)..(i + n - 1) : Utf8IsCont(b[m])
              /\ (c = 224 => b[i + 1] >= 160)
              /\ (c = 237 => b[i + 1] <= 159)
              /\ (c = 240 => b[i + 1] >= 144)
              /\ (c = 244 => b[i + 1] <= 143)

\* ----------------------------------------------------------------- base64
\* A base64 text is a sequence of symbols: 0..63 the alphabet characters by
\* value, B64Pad the '=' character, B64Junk any character outside the alphabet.
B64Pad == 64
B64Junk == 65

\* binascii.a2b_base64 in its default non-strict mode, as base64.b64decode
\* calls it.  Characters outside the alphabet are skipped.  quad_pos at a
\* position is the number of alphabet characters before it, modulo 4; a pad
\* character read at quad_pos >= 2 counts the pads since the last alphabet
\* character, and once quad_pos + pads >= 4 the input ends there.  Input that
\* ends elsewhere with quad_pos # 0 raises binascii.Error.
b64decode(text) ==
  LET IsData(ch) == ch < B64Pad
      QuadPos(i) == Cardinality({j \in 1..(i - 1) : IsData(text[j])}) % 4
      Pads(i) == Cardinality({j \in 1..i : /\ text[j] = B64Pad
                                           /\ \A m \in j..i : ~IsData(text[m])})
      stops == {i \in 1..Len(text) : /\ text[i] = B64Pad
                                     /\ QuadPos(i) >= 2
                                     /\ QuadPos(i) + Pads(i) >= 4}
      stop == IF stops = {} THEN Len(text) + 1
              ELSE CHOOSE i \in stops : \A j \in stops : i <= j
      d == SelectSeq(SubSeq(text, 1, stop - 1), IsData)
      n == Len(d)
      nbytes == (n \div 4) * 3 + (IF n % 4 = 0 THEN 0 ELSE (n % 4) - 1)
      Byte(j) ==
        LET g == 4 * ((j - 1) \div 3)
            r == (j - 1) % 3
        IN IF r = 0 THEN d[g + 1] * 4 + d[g + 2] \div 16
           ELSE IF r = 1 THEN (d[g + 2] % 16) * 16 + d[g + 3] \div 4
           ELSE (d[g + 3] % 4) * 64 + d[g + 4]
  IN [ok |-> stops # {} \/ n % 4 = 0, bytes |-> [j \in 1..nbytes |-> Byte(j)]]

\* The encoding the on-chain program's log line carries ("Program data: ...").
B64Encode(b) ==
  LET n == Len(b)
      At(i) == IF i <= n THEN b[i] ELSE 0
      Sym(k) ==
        LET g == 3 * ((k - 1) \div 4)
            r == (k - 1) % 4
        IN IF r = 0 THEN At(g + 1) \div 4
           ELSE IF r = 1 THEN (At(g + 1) % 4) * 16 + At(g + 2) \div 16
           ELSE IF r = 2 THEN IF g + 2 > n THEN B64Pad
                              ELSE (At(g + 2) % 16) * 4 + At(g + 3) \div 64
           ELSE IF g + 3 > n THEN B64Pad ELSE At(g + 3) % 64
  IN [k \in 1..(4 * ((n + 2) \div 3)) |-> Sym(k)]

\* ---------------------------------------------------------------- decoder
\* handle_create lines 124-130 on the text after "Program data: ".  The result
\* names how that stretch of code ends: "error" (an exception leaves
\* handle_create), "skip" (line 125 returns) or "event".
DecodeCreate(data_b64) ==
  LET dec == b64decode(data_b64)
      data_bytes == dec.bytes
      nameB == Slice(data_bytes, DiscEnd, NameEnd)
      symbolB == Slice(data_bytes, NameEnd, SymbolEnd)
      uri_len == IntFromBytesLE(Slice(data_bytes, SymbolEnd, UriStart))
      uriB == Slice(data_bytes, UriStart, UriStart + uri_len)
      none == [kind |-> "skip", exc |-> "none", data_bytes |-> <<>>,
               name |-> <<>>, symbol |-> <<>>, uri_len |-> 0, uri |-> <<>>]
  IN IF ~dec.ok
       THEN [none EXCEPT !.kind = "error", !.exc = "binascii.Error"]
     ELSE IF Slice(data_bytes, 0, DiscEnd) # CREATE_DISC
       THEN [none EXCEPT !.data_bytes = data_bytes]
     ELSE IF ~(Utf8Valid(nameB) /\ Utf8Valid(symbolB) /\ Utf8Valid(uriB))
       THEN [none EXCEPT !.kind = "error", !.exc = "UnicodeDecodeError",
                         !.data_bytes = data_bytes]
     ELSE [kind |-> "event", exc |-> "none", data_bytes |-> data_bytes,
           name |-> RStripNul(nameB), symbol |-> RStripNul(symbolB),
           uri_len |-> uri_len, uri |-> RStripNul(uriB)]

\* ------------------------------------------------------------ Python dicts
\* A dict is a function from its keys; {} is the function with no key.
EmptyDict == [k \in {} |-> ""]
\* d.get(k, default)
Get(d, k, default) == IF k \in DOMAIN d THEN d[k] ELSE default
\* JSON values whose type the code depends on.
Num(n) == [t |-> "num", n |-> n]
Str(s) == [t |-> "str", s |-> s]
JNull == [t |-> "null"]
\* A JSON string the code splits into words: its whitespace-separated words.
JText(words) == [t |-> "text", words |-> words]

\* The words the inputs are built from, with str.lower() and the substring
\* test `sub in w` on them.
Lower(w) == IF w = "T.me/Foo" THEN "t.me/foo" ELSE w
Contains(w, sub) ==
  \/ sub = "t.me" /\ w \in {"t.me/foo", "t.me/ext", "t.me/dex"}
  \/ sub = "telegram" /\ w \in {"telegram"}
  \/ sub = "discord" /\ w \in {"discord", "discord.gg/bar", "discord.com/inv",
                               "discord.gg/ext", "discord.gg/dex"}
  \/ sub = "discord.gg" /\ w \in {"discord.gg/bar", "discord.gg/ext", "discord.gg/dex"}
  \/ sub = "discord.com" /\ w \in {"discord.com/inv"}

\* next((w for w in xs if any(sub in w for sub in subs)), "") on a list of strings.
RECURSIVE First(_, _)
First(xs, subs) ==
  IF Len(xs) = 0 THEN ""
  ELSE IF \E sub \in subs : Contains(xs[1], sub) THEN xs[1]
  ELSE First(Tail(xs), subs)

\* x or y on strings: the empty string is falsy.
OrElse(x, y) == IF x # "" THEN x ELSE y

\* ------------------------------------------------------------- enrichment
\* fetch_metadata, lines 39-46, on the HTTP exchange's outcome: any exception
\* (transport error, timeout, a body that is not JSON) gives {}.
fetch_metadata(resp) ==
  IF resp.err THEN EmptyDict
  ELSE IF resp.status = 200
    THEN IF resp.json_ok THEN resp.json ELSE EmptyDict
  ELSE EmptyDict

\* extract_socials with lines 59-60 giving the description's handle precedence
\* over the extensions value.
extract_socialsDescFirst(metadata) ==
  LET d == Get(metadata, "description", JText(<<>>)) IN
  IF d.t = "null" THEN [ok |-> FALSE, tg |-> "", discord |-> ""]
  ELSE
    LET desc == [i \in 1..Len(d.words) |-> Lower(d.words[i])]
        InDesc(sub) == \E i \in 1..Len(desc) : Contains(desc[i], sub)
        tg0 == IF InDesc("t.me") \/ InDesc("telegram") THEN First(desc, {"t.me"}) ELSE ""
        dc0 == IF InDesc("discord")
                 THEN First(desc, {"discord.gg", "discord.com"}) ELSE ""
        extensions == Get(metadata, "extensions", EmptyDict)
    IN [ok |-> TRUE,
        tg |-> OrElse(tg0, Get(extensions, "telegram", "")),
        discord |-> OrElse(dc0, Get(extensions, "discord", ""))]

\* extract_socials, lines 48-61.  A description that is JSON null has no
\* .lower(): the AttributeError is not caught here.
extract_socials(metadata) ==
  LET d == Get(metadata, "description", JText(<<>>)) IN
  IF d.t = "null" THEN [ok |-> FALSE, tg |-> "", discord |-> ""]
  ELSE
    LET desc == [i \in 1..Len(d.words) |-> Lower(d.words[i])]
        InDesc(sub) == \E i \in 1..Len(desc) : Contains(desc[i], sub)
        tg0 == IF InDesc("t.me") \/ InDesc("telegram") THEN First(desc, {"t.me"}) ELSE ""
        dc0 == IF InDesc("discord")
                 THEN First(desc, {"discord.gg", "discord.com"}) ELSE ""
        extensions == Get(metadata, "extensions", EmptyDict)
    IN [ok |-> TRUE,
        tg |-> OrElse(Get(extensions, "telegram", ""), tg0),
        discord |-> OrElse(Get(extensions, "discord", ""), dc0)]

\* The url of the first entry of socials whose type contains kind, else "".
RECURSIVE FirstUrl(_, _)
FirstUrl(socials, kind) ==
  IF Len(socials) = 0 THEN ""
  ELSE IF Contains(socials[1].type, kind) THEN socials[1].url
  ELSE FirstUrl(Tail(socials), kind)

\* get_dex_info, lines 63-83: the first pair's fields, or {} when the request
\* raises, the body is not JSON or there is no pair.
get_dex_info(resp) ==
  IF resp.err \/ ~resp.json_ok THEN EmptyDict
  ELSE
    LET pairs == Get(resp.data, "pairs", <<>>) IN
    IF Len(pairs) = 0 THEN EmptyDict
    ELSE
      LET pair == pairs[1]
          socials == Get(Get(pair, "info", EmptyDict), "socials", <<>>)
      IN [mc |-> Get(pair, "fdv", Num(0)),
          holders |-> Get(pair, "holderCount", Str("?")),
          tg |-> FirstUrl(socials, "telegram"),
          discord |-> FirstUrl(socials, "discord"),
          price |-> Get(pair, "priceUsd", Num(0))]

\* A lamport balance b is the pair (whole, frac) with
\* b = whole * LamportsPerSol + frac and 0 <= frac < LamportsPerSol.
\* sol > 5 at line 89, for sol = b / 1_000_000_000.
\* The comparison of line 89 with >= in place of >.
IsRichAtLeast(bal) == bal.whole >= RichSol

IsRich(bal) == bal.whole > RichSol \/ (bal.whole = RichSol /\ bal.frac > 0)

\* dev_check, lines 85-91.
dev_check(resp) ==
  IF resp.err THEN [sol |-> [whole |-> 0, frac |-> 0], rich |-> FALSE]
  ELSE [sol |-> resp.value, rich |-> IsRich(resp.value)]

\* Line 144 with the metadata-derived link taken first.
FinalTgMetaFirst(dex, socials_meta) == OrElse(socials_meta.tg, Get(dex, "tg", ""))

\* Lines 144-145: the links used by the filter and the alert.
FinalTg(dex, socials_meta) == OrElse(Get(dex, "tg", ""), socials_meta.tg)
FinalDc(dex, socials_meta) == OrElse(Get(dex, "discord", ""), socials_meta.discord)

\* Line 146: whether handle_create returns without alerting.
FilteredOut(rs, tg, dc) == rs /\ ~(tg # "" \/ dc # "")

\* Lines 157-158: the format specs ',.0f' and '.8f' accept numbers only; a str
\* value (the default '?' of dex.get('mc', '?') included) raises ValueError.
FormatOk(dex) ==
  /\ Get(dex, "mc", Str("?")).t = "num"
  /\ Get(dex, "price", Num(0)).t = "num"

\* Lines 149-162: the alert handed to bot.send_message.
Alert(f, dev_info) ==
  [ca |-> f.ca, name |-> f.name, symbol |-> f.symbol, dev |-> f.dev,
   sol |-> dev_info.sol, rich |-> dev_info.rich,
   rug |-> IF dev_info.rich THEN "low risk" ELSE "watch dev",
   mc |-> Get(f.dex, "mc", Str("?")), holders |-> Get(f.dex, "holders", Str("?")),
   price |-> Get(f.dex, "price", Num(0)), tg |-> f.tg, dc |-> f.dc]

\* ----------------------------------------------------------------- inputs
\* What the environment can hand the program: log messages, RPC and HTTP
\* outcomes, Telegram users.
NameWidth == NameEnd - DiscEnd
Nuls(n) == [i \in 1..n |-> 0]
\* A text field NUL-padded to the fixed width of the create instruction's layout.
Pad(b) == b \o Nuls(NameWidth - Len(b))
U32LE(n) == <<n % 256, (n \div 256) % 256, (n \div 65536) % 256, (n \div 16777216) % 256>>

TxtFoo == <<70, 111, 111>>
TxtFOO == <<70, 79, 79>>
TxtUri == <<120, 47, 121>>

\* A well-formed create payload.
GoodPayload == CREATE_DISC \o Pad(TxtFoo) \o Pad(TxtFOO) \o U32LE(Len(TxtUri)) \o TxtUri
\* Another instruction's event data.
OtherPayload == <<1, 2, 3, 4, 5, 6, 7, 8>> \o Pad(TxtFoo)
\* Fewer bytes than the discriminator.
TinyPayload == <<24, 30, 200>>
\* The create discriminator and a header cut short of UriStart bytes.
ShortPayload == CREATE_DISC \o TxtFoo
\* A declared URI length that exceeds the bytes that follow.
OverrunPayload == CREATE_DISC \o Pad(TxtFoo) \o Pad(TxtFOO) \o U32LE(200) \o TxtUri
\* A name that is not UTF-8.
BadUtf8Payload == CREATE_DISC \o Pad(<<70, 255>>) \o Pad(TxtFOO) \o U32LE(Len(TxtUri)) \o TxtUri

\* Texts after "Program data: ": encodings, one with its padding cut off (not
\* valid base64), one with a character outside the alphabet.
DataTexts ==
  { B64Encode(GoodPayload), B64Encode(OtherPayload), B64Encode(TinyPayload),
    B64Encode(ShortPayload), B64Encode(OverrunPayload), B64Encode(BadUtf8Payload),
    SubSeq(B64Encode(GoodPayload), 1, Len(B64Encode(GoodPayload)) - 2),
    <<B64Junk>> \o B64Encode(GoodPayload) }

\* A log line: what it contains of the two substrings the code looks for.
LogLine(kind, data) == [kind |-> kind, data |-> data]
Messages ==
  { [has_value |-> FALSE, logs |-> <<>>, signature |-> "sig"],
    [has_value |-> TRUE, signature |-> "sig",
     logs |-> <<LogLine("invoke", <<>>), LogLine("Instruction: Buy", <<>>),
                LogLine("Program data: ", B64Encode(GoodPayload))>>],
    [has_value |-> TRUE, signature |-> "sig",
     logs |-> <<LogLine("invoke", <<>>), LogLine("Instruction: Create", <<>>)>>] }
  \cup { [has_value |-> TRUE, signature |-> "sig",
          logs |-> <<LogLine("invoke", <<>>), LogLine("Instruction: Create", <<>>),
                     LogLine("Program data: ", t)>>] : t \in DataTexts }

\* get_transaction outcomes: the RPC raises, the transaction is not found
\* (tx.value is None), or it is found with its first signer and the mint the
\* creation made.
Mints == {"M1", "M2"}
NoTx == [err |-> FALSE, found |-> FALSE, dev |-> "", mint |-> ""]
TxResponses ==
  { [NoTx EXCEPT !.err = TRUE], NoTx }
  \cup { [err |-> FALSE, found |-> TRUE, dev |-> "devA", mint |-> m] : m \in Mints }

\* Metadata documents.
MetaDocs ==
  { EmptyDict,
    [description |-> JText(<<"join", "T.me/Foo">>)],
    [description |-> JText(<<"telegram", "discord", "discord.gg/bar">>)],
    [description |-> JNull],
    [extensions |-> [telegram |-> "t.me/ext"]],
    [description |-> JText(<<"T.me/Foo", "discord.com/inv">>),
     extensions |-> [telegram |-> "t.me/ext", discord |-> ""]] }
NoHttp == [err |-> TRUE, status |-> 0, json_ok |-> FALSE, json |-> EmptyDict]
MetaResponses ==
  { NoHttp,
    [err |-> FALSE, status |-> 404, json_ok |-> TRUE, json |-> [description |-> JNull]],
    [err |-> FALSE, status |-> 200, json_ok |-> FALSE, json |-> EmptyDict] }
  \cup { [err |-> FALSE, status |-> 200, json_ok |-> TRUE, json |-> d] : d \in MetaDocs }

\* DexScreener outcomes.
DexResponses ==
  { [err |-> TRUE, json_ok |-> FALSE, data |-> EmptyDict],
    [err |-> FALSE, json_ok |-> TRUE, data |-> [pairs |-> <<>>]],
    [err |-> FALSE, json_ok |-> TRUE,
     data |-> [pairs |-> << [fdv |-> Num(1000), priceUsd |-> Num(2)] >>]],
    [err |-> FALSE, json_ok |-> TRUE,
     data |-> [pairs |-> << [fdv |-> Num(1000), priceUsd |-> Str("0.002"),
                             info |-> [socials |-> << [type |-> "telegram",
                                                       url |-> "t.me/dex"] >>]] >>]],
    [err |-> FALSE, json_ok |-> TRUE,
     data |-> [pairs |-> << [fdv |-> Num(1000), holderCount |-> Num(7),
                             info |-> [socials |-> << [type |-> "twitter", url |-> "x.com/dex"],
                                                      [type |-> "discord",
                                                       url |-> "discord.gg/dex"] >>]] >>]] }

\* get_balance outcomes: the call raises, or answers with a balance (1 SOL,
\* exactly 5 SOL, 1000 lamports above 5 SOL).
Lamports(w, f) == [whole |-> w, frac |-> f]
BalanceResponses ==
  { [err |-> TRUE, value |-> Lamports(0, 0)] }
  \cup { [err |-> FALSE, value |-> b] :
           b \in {Lamports(1, 0), Lamports(RichSol, 0), Lamports(RichSol, 1000)} }

NoBalance == [err |-> TRUE, value |-> Lamports(0, 0)]

Users == {YOUR_ID, YOUR_ID + 1}

\* ------------------------------------------------------------------ state
VARIABLES
  pc,               \* where the ws_listener task is: "start", "recv", an await
                    \* of handle_create, or "dead" once the task has ended
  exc,              \* the exception that ended the task, "none" while it runs
  frame,            \* the locals of the handle_create call in progress, or of
                    \* the call an exception left
  seen_tokens,      \* line 31
  require_socials,  \* line 33
  sent,             \* the bot.send_message calls made at line 164, in order
  outcomes,         \* how the handling of each received message ended, in order
  fetches,          \* enrichment calls made (fetch_metadata, get_dex_info, dev_check)
  answers,          \* msg.answer calls made by the command handlers
  answer,           \* the last of them: the chat answered and the command
  started           \* the messages handed to handle_create at line 180, by
                    \* arrival number, in the order of the calls

vars == <<pc, exc, frame, seen_tokens, require_socials, sent, outcomes, fetches,
          answers, answer, started>>

NoAnswer == [to |-> 0, cmd |-> ""]
NoDevInfo == [sol |-> Lamports(0, 0), rich |-> FALSE]
NoAlert ==
  [ca |-> "", name |-> <<>>, symbol |-> <<>>, dev |-> "", sol |-> Lamports(0, 0),
   rich |-> FALSE, rug |-> "", mc |-> Str("?"), holders |-> Str("?"),
   price |-> Num(0), tg |-> "", dc |-> ""]
NoSocials == [ok |-> TRUE, tg |-> "", discord |-> ""]
NoFrame ==
  [outcome |-> "none", create |-> FALSE, data_bytes |-> <<>>, name |-> <<>>, symbol |-> <<>>,
   uri_len |-> 0, uri |-> <<>>, tx |-> NoTx, dev |-> "", ca |-> "",
   novel |-> FALSE, meta |-> EmptyDict, socials_meta |-> NoSocials,
   dex |-> EmptyDict, tg |-> "", dc |-> "", rs_recv |-> FALSE, bal |-> NoBalance,
   dev_info |-> NoDevInfo, msg_txt |-> NoAlert]

Init ==
  /\ pc = "start"
  /\ exc = "none"
  /\ frame = NoFrame
  /\ seen_tokens = {}
  /\ require_socials = TRUE
  /\ sent = <<>>
  /\ outcomes = <<>>
  /\ fetches = 0
  /\ answers = 0
  /\ answer = NoAnswer
  /\ started = <<>>

\* How the handling of a message ended: the result, whether the message was a
\* creation message, the mint the event's
\* transaction created ("" when the event was never resolved) and whether that
\* mint was absent from seen_tokens when line 138 ran, and whether the event
\* had a Telegram or Discord link when line 146 ran.
Outcome(res, f) ==
  [res |-> res, create |-> f.create, mint |-> f.tx.mint, novel |-> f.novel,
   links |-> (f.tg # "" \/ f.dc # "")]

\* The handling of the current message ends: handle_create returns to the
\* loop at line 174 (or was never called), and its locals are gone.
Return(res, f) ==
  /\ pc' = "recv"
  /\ exc' = exc
  /\ frame' = NoFrame
  /\ outcomes' = Append(outcomes, Outcome(res, f))

\* An exception leaves handle_create with locals f; ws_listener has no
\* handler, so it leaves the task, which main never awaits.
Raise(e, outcome, f) ==
  /\ pc' = "dead"
  /\ exc' = e
  /\ frame' = [f EXCEPT !.outcome = outcome]
  /\ outcomes' = Append(outcomes, Outcome(outcome, f))

\* The handling goes on to its next await with locals f.
Goto(next, f) ==
  /\ pc' = next
  /\ frame' = f
  /\ UNCHANGED <<exc, outcomes>>

\* ------------------------------------------------------------- ws_listener
\* Lines 169-173: connect, subscribe, read the subscription response.
Subscribe ==
  /\ pc = "start"
  /\ pc' = "recv"
  /\ UNCHANGED <<exc, frame, seen_tokens, require_socials, sent, outcomes, fetches,
                 answers, answer, started>>

\* The message is the log notification of a transaction that ran the
\* program's Create instruction.
CreationMessage(msg) ==
  /\ msg.has_value
  /\ \E i \in 1..Len(msg.logs) : msg.logs[i].kind = "Instruction: Create"

\* Line 179 looking for the instruction in the first log line only.
IsCreateFirstLine(msg) ==
  /\ msg.has_value
  /\ Len(msg.logs) > 0
  /\ msg.logs[1].kind = "Instruction: Create"

\* Line 175 and line 179: whether the message is handed to handle_create.
IsCreate(msg) ==
  /\ msg.has_value
  /\ \E i \in 1..Len(msg.logs) : msg.logs[i].kind = "Instruction: Create"

\* Lines 120-130: handle_create up to its first await.
HandleCreateEntry(logs) ==
  LET IsData(l) == l.kind = "Program data: "
      program_data_logs == SelectSeq(logs, IsData)
  IN IF Len(program_data_logs) = 0
       THEN [kind |-> "nodata", exc |-> "none", data_bytes |-> <<>>, name |-> <<>>,
             symbol |-> <<>>, uri_len |-> 0, uri |-> <<>>]
       ELSE DecodeCreate(program_data_logs[1].data)

\* What lines 120-130 make of each message the subscription can deliver.
Decoded == [msg \in Messages |-> HandleCreateEntry(msg.logs)]

\* Lines 174-131: the loop takes the next message; a creation message runs
\* handle_create, inline, up to the await of get_transaction.
Recv(msg) ==
  /\ pc = "recv"
  /\ Len(outcomes) < MaxMsgs
  /\ started' = IF IsCreate(msg) THEN Append(started, Len(outcomes) + 1) ELSE started
  /\ IF ~IsCreate(msg)
       THEN Return("ignored", [NoFrame EXCEPT !.create = CreationMessage(msg)])
     ELSE
       LET d == Decoded[msg]
           f == [NoFrame EXCEPT !.create = CreationMessage(msg),
                                !.data_bytes = d.data_bytes, !.name = d.name,
                                !.symbol = d.symbol, !.uri_len = d.uri_len,
                                !.uri = d.uri, !.outcome = "running",
                                !.rs_recv = require_socials]
       IN IF d.kind = "nodata" THEN Return("no_program_data", f)
          ELSE IF d.kind = "skip" THEN Return("not_create", f)
          ELSE IF d.kind = "error" THEN Raise(d.exc, "decode_error", f)
          ELSE Goto("get_transaction", f)
  /\ UNCHANGED <<seen_tokens, require_socials, sent, fetches, answers, answer>>

\* The transport drops the subscription: the async for at line 174 raises.
Disconnect ==
  /\ pc = "recv"
  /\ pc' = "dead"
  /\ exc' = "ConnectionClosed"
  /\ UNCHANGED <<frame, seen_tokens, require_socials, sent, outcomes, fetches,
                 answers, answer, started>>

\* ----------------------------------------------------------- handle_create
\* Dedup with the insertion of line 139 left out.
DedupNoInsert(ca, seenSet) == [dup |-> ca \in seenSet, seen |-> seenSet]

\* Dedup with the membership test of line 138 left out.
DedupNoCheck(ca, seenSet) == [dup |-> FALSE, seen |-> seenSet \cup {ca}]

\* Lines 138-139: the membership test and the insertion, with no await between.
Dedup(ca, seenSet) ==
  [dup |-> ca \in seenSet, seen |-> IF ca \in seenSet THEN seenSet ELSE seenSet \cup {ca}]

\* AfterGetTransaction with the insertion of line 139 moved ahead of the test
\* of tx.value at line 133.
AfterGetTransactionInsertFirst(tx, seenSet) ==
  IF tx.err
    THEN [next |-> "raise", outcome |-> "resolve_error", seen |-> seenSet]
  ELSE IF ~tx.found
    THEN [next |-> "return", outcome |-> "resolve_miss",
          seen |-> seenSet \cup {PARSE_MINT_HERE}]
  ELSE IF PARSE_MINT_HERE \in seenSet
    THEN [next |-> "return", outcome |-> "duplicate", seen |-> seenSet]
  ELSE [next |-> "fetch_metadata", outcome |-> "running",
        seen |-> seenSet \cup {PARSE_MINT_HERE}]

\* Lines 132-139 once get_transaction has answered.
AfterGetTransaction(tx, seenSet) ==
  IF tx.err
    THEN [next |-> "raise", outcome |-> "resolve_error", seen |-> seenSet]
  ELSE IF ~tx.found
    THEN [next |-> "return", outcome |-> "resolve_miss", seen |-> seenSet]
  ELSE
    LET d == Dedup(PARSE_MINT_HERE, seenSet) IN
    IF d.dup THEN [next |-> "return", outcome |-> "duplicate", seen |-> d.seen]
    ELSE [next |-> "fetch_metadata", outcome |-> "running", seen |-> d.seen]

GetTransaction(tx) ==
  /\ pc = "get_transaction"
  /\ LET r == AfterGetTransaction(tx, seen_tokens)
         f == [frame EXCEPT !.tx = tx,
                            !.dev = IF tx.found THEN tx.dev ELSE "",
                            !.ca = IF tx.found THEN PARSE_MINT_HERE ELSE "",
                            !.novel = tx.found /\ tx.mint \notin seen_tokens]
     IN /\ seen_tokens' = r.seen
        /\ IF r.next = "raise" THEN Raise("RPCException", r.outcome, f)
           ELSE IF r.next = "return" THEN Return(r.outcome, f)
           ELSE Goto(r.next, f)
  /\ UNCHANGED <<require_socials, sent, fetches, answers, answer, started>>

\* Lines 141-142.
FetchMetadata(resp) ==
  /\ pc = "fetch_metadata"
  /\ fetches' = fetches + 1
  /\ LET meta == fetch_metadata(resp)
         socials_meta == extract_socials(meta)
     IN IF ~socials_meta.ok
          THEN Raise("AttributeError", "enrich_error", [frame EXCEPT !.meta = meta])
          ELSE Goto("get_dex_info",
                    [frame EXCEPT !.meta = meta, !.socials_meta = socials_meta])
  /\ UNCHANGED <<seen_tokens, require_socials, sent, answers, answer, started>>

\* Lines 143-146 with line 146 deciding on the require_socials the listener
\* saw when it took the message, not on the one in force now.
GetDexInfoFlagAtReceipt(resp) ==
  /\ pc = "get_dex_info"
  /\ fetches' = fetches + 1
  /\ LET dex == get_dex_info(resp)
         tg == FinalTg(dex, frame.socials_meta)
         dc == FinalDc(dex, frame.socials_meta)
         f == [frame EXCEPT !.dex = dex, !.tg = tg, !.dc = dc]
     IN IF FilteredOut(frame.rs_recv, tg, dc)
          THEN Return("filtered", f)
          ELSE Goto("dev_check", f)
  /\ UNCHANGED <<seen_tokens, require_socials, sent, answers, answer, started>>

\* Lines 143-146.
GetDexInfo(resp) ==
  /\ pc = "get_dex_info"
  /\ fetches' = fetches + 1
  /\ LET dex == get_dex_info(resp)
         tg == FinalTg(dex, frame.socials_meta)
         dc == FinalDc(dex, frame.socials_meta)
         f == [frame EXCEPT !.dex = dex, !.tg = tg, !.dc = dc]
     IN IF FilteredOut(require_socials, tg, dc)
          THEN Return("filtered", f)
          ELSE Goto("dev_check", f)
  /\ UNCHANGED <<seen_tokens, require_socials, sent, answers, answer, started>>

\* Lines 148-163: the balance check, then the message text and the keyboard.
DevCheck(resp) ==
  /\ pc = "dev_check"
  /\ fetches' = fetches + 1
  /\ LET dev_info == dev_check(resp)
         f == [frame EXCEPT !.bal = resp, !.dev_info = dev_info]
     IN IF FormatOk(frame.dex)
          THEN Goto("send_message", [f EXCEPT !.msg_txt = Alert(frame, dev_info)])
          ELSE Raise("ValueError", "format_error", f)
  /\ UNCHANGED <<seen_tokens, require_socials, sent, answers, answer, started>>

\* Line 164: the one send; a failed send raises out of handle_create.
SendMessage(delivered) ==
  /\ pc = "send_message"
  /\ sent' = Append(sent, [k |-> Len(outcomes) + 1, mint |-> frame.tx.mint,
                           ca |-> frame.msg_txt.ca, delivered |-> delivered])
  /\ IF delivered
       THEN Return("sent", frame)
       ELSE Raise("TelegramAPIError", "send_failed", frame)
  /\ UNCHANGED <<seen_tokens, require_socials, fetches, answers, answer, started>>

\* ---------------------------------------------------------------- commands
\* The check of lines 102, 107 and 114 left out.
AuthorizedAnyone(user) == TRUE

\* Line 102, 107, 114: the handlers return at once for any other user.
Authorized(user) == user = YOUR_ID

\* msg.answer(...): the reply goes to the chat the command came from.
Answer(user, cmd) ==
  /\ answers' = answers + 1
  /\ answer' = [to |-> user, cmd |-> cmd]

\* start, lines 100-103.
Start(user) ==
  /\ Authorized(user) => answers < MaxCmds
  /\ IF Authorized(user) THEN Answer(user, "start") ELSE UNCHANGED <<answers, answer, started>>
  /\ UNCHANGED <<pc, exc, frame, seen_tokens, require_socials, sent, outcomes, fetches,
                 started>>

\* status, lines 105-109.
Status(user) ==
  /\ Authorized(user) => answers < MaxCmds
  /\ IF Authorized(user) THEN Answer(user, "status") ELSE UNCHANGED <<answers, answer, started>>
  /\ UNCHANGED <<pc, exc, frame, seen_tokens, require_socials, sent, outcomes, fetches,
                 started>>

\* toggle, lines 111-116.
Toggle(user) ==
  /\ Authorized(user) => answers < MaxCmds
  /\ require_socials' = IF Authorized(user) THEN ~require_socials ELSE require_socials
  /\ IF Authorized(user) THEN Answer(user, "socials") ELSE UNCHANGED <<answers, answer, started>>
  /\ UNCHANGED <<pc, exc, frame, seen_tokens, sent, outcomes, fetches, started>>

\* The steps of the ws_listener task.
ListenerNext ==
  \/ Subscribe
  \/ \E msg \in Messages : Recv(msg)
  \/ \E tx \in TxResponses : GetTransaction(tx)
  \/ \E resp \in MetaResponses : FetchMetadata(resp)
  \/ \E resp \in DexResponses : GetDexInfo(resp)
  \/ \E resp \in BalanceResponses : DevCheck(resp)
  \/ \E delivered \in BOOLEAN : SendMessage(delivered)

Next ==
  \/ ListenerNext
  \/ Disconnect
  \/ \E user \in Users : Start(user)
  \/ \E user \in Users : Status(user)
  \/ \E user \in Users : Toggle(user)

Spec == Init /\ [][Next]_vars

\* ----------------------------------------------------------------- claims
Last(q) == q[Len(q)]
\* A message's handling ended in this step.
Finished == Len(outcomes') = Len(outcomes) + 1
\* handle_create is suspended at one of its awaits.
InFlight == pc \in {"get_transaction", "fetch_metadata", "get_dex_info", "dev_check",
                    "send_message"}
\* The mints of the events that reached the dedup check at line 138.
Processed ==
  ({outcomes[i].mint : i \in 1..Len(outcomes)} \cup {frame.tx.mint}) \ {""}

\* C1: a mint identifier produces at most one alert: no two sends carry the
\* same identifier or are for the same mint, and the identifier is in
\* seen_tokens from the dedup step on, before the send.
C1_AtMostOneAlertPerMint ==
  /\ \A i, j \in 1..Len(sent) :
       (sent[i].ca = sent[j].ca \/ sent[i].mint = sent[j].mint) => i = j
  /\ \A i \in 1..Len(sent) : sent[i].ca \in seen_tokens
  /\ pc \in {"fetch_metadata", "get_dex_info", "dev_check", "send_message"}
       => frame.ca \in seen_tokens

\* An alert went out for a mint and a later event for the same mint was
\* dropped as a duplicate.
C1_Witness ==
  \E i, j \in 1..Len(outcomes) :
    /\ i < j
    /\ outcomes[i].res = "sent"
    /\ outcomes[j].res = "duplicate"
    /\ outcomes[j].mint = outcomes[i].mint
    /\ Len(sent) = 1

\* C2: when require_socials is true and the event has no Telegram and no
\* Discord link, line 146 returns without a send and the event's mint is in
\* seen_tokens; and no send is ever made for a mint an earlier event of which
\* was filtered out, whatever require_socials is by then.
C2_FilteredMintIsSeen ==
  [][ /\ (pc = "get_dex_info" /\ pc' = "recv")
           => (sent' = sent /\ frame.tx.mint \in seen_tokens')
      /\ pc = "send_message"
           => ~\E i \in 1..Len(outcomes) :
                 outcomes[i].res = "filtered" /\ outcomes[i].mint = frame.tx.mint
    ]_vars

\* C3: with require_socials false, the handling of every decoded and resolved
\* event whose mint is not in seen_tokens ends with the send of an alert.
C3_NovelEventNotifies ==
  [][ (Finished /\ Last(outcomes').novel /\ ~require_socials /\ ~require_socials')
        => Last(outcomes').res \in {"sent", "send_failed"} ]_vars

\* C4: when get_dex_info returned {} while the metadata fetch gave a document
\* and the balance query answered, handle_create goes on to the send, with the
\* metadata-derived links and the default market fields in the alert.
C4_DexFailureStillNotifies ==
  [][ ( /\ pc = "dev_check" /\ pc' # "dev_check"
        /\ DOMAIN frame.dex = {}
        /\ DOMAIN frame.meta # {}
        /\ frame'.dev_info.sol.whole > 0 )
        => /\ pc' = "send_message"
           /\ frame'.msg_txt.tg = frame.socials_meta.tg
           /\ frame'.msg_txt.dc = frame.socials_meta.discord
           /\ frame'.msg_txt.mc.t = "str"
           /\ frame'.msg_txt.price.t = "num" /\ frame'.msg_txt.price.n = 0 ]_vars

\* C5: the identifier in seen_tokens is the event's own mint: the mint of every
\* event that reached the dedup check is in seen_tokens, and an event is dropped
\* as a duplicate only when an earlier event had the same mint.
C5_SeenHoldsEventMint ==
  /\ Processed \subseteq seen_tokens
  /\ \A j \in 1..Len(outcomes) :
       outcomes[j].res = "duplicate"
         => \E i \in 1..(j - 1) : outcomes[i].mint = outcomes[j].mint

\* The listener takes a message off the subscription.
RecvAny == \E msg \in Messages : Recv(msg)

\* C6: while an event's handle_create is suspended at an await, the listener
\* can take the next message.
C6_RecvNotGated ==
  (InFlight /\ Len(outcomes) + 1 < MaxMsgs) => ENABLED RecvAny

\* C7: a decode fault discards only its event: seen_tokens is unchanged and the
\* listener is back at the loop, subscribed, for the next message.
C7_DecodeFaultKeepsListener ==
  [][ (Finished /\ Last(outcomes').res = "decode_error")
        => (pc' = "recv" /\ exc' = "none" /\ seen_tokens' = seen_tokens) ]_vars

\* C8: an event is decoded only from a payload of at least UriStart bytes that
\* opens with CREATE_DISC and holds all the bytes its URI length declares.
C8_DecoderRejectsMalformed ==
  InFlight =>
    /\ Len(frame.data_bytes) >= UriStart
    /\ SubSeq(frame.data_bytes, 1, DiscEnd) = CREATE_DISC
    /\ frame.uri_len <= Len(frame.data_bytes) - UriStart

\* C9: after a transport disconnect the listener has a next step (it
\* resubscribes): the disconnect does not end event processing.
C9_ResubscribesAfterDisconnect ==
  exc = "ConnectionClosed" => ENABLED ListenerNext

\* C10: a resolution miss (tx.value is None) discards only its event: no
\* change to seen_tokens or require_socials, no enrichment call, no send, and
\* the listener is back at the loop for the next message.
C10_ResolveMissDiscardsEvent ==
  [][ (Finished /\ Last(outcomes').res = "resolve_miss")
        => /\ seen_tokens' = seen_tokens
           /\ require_socials' = require_socials
           /\ fetches' = fetches
           /\ sent' = sent
           /\ pc' = "recv" /\ exc' = "none" /\ frame' = NoFrame ]_vars

\* An event was dropped at a resolution miss and a later event was alerted.
C10_Witness ==
  \E i, j \in 1..Len(outcomes) :
    i < j /\ outcomes[i].res = "resolve_miss" /\ outcomes[j].res = "sent"

\* C11: a failed send changes nothing else and ends only its event: one send
\* was attempted for the event, the event's identifier stays in seen_tokens,
\* and the listener is back at the loop, subscribed, for the next message.
C11_SendFaultKeepsListener ==
  [][ (Finished /\ Last(outcomes').res = "send_failed")
        => /\ Len(sent') = Len(sent) + 1
           /\ seen_tokens' = seen_tokens /\ frame.ca \in seen_tokens'
           /\ require_socials' = require_socials
           /\ pc' = "recv" /\ exc' = "none" ]_vars

\* dev_check has returned for the event in hand.
DevChecked == pc = "send_message" \/ frame.outcome \in {"format_error", "send_failed"}

\* C12: the developer is rich exactly when the lamport balance is above
\* 5,000,000,000 (not at 5,000,000,000, yes at 5,000,001,000), and a failed
\* balance query gives balance 0 and not rich.
C12_RichAboveFiveSol ==
  DevChecked =>
    LET b == frame.bal.value
        above == ~(b.whole < RichSol \/ (b.whole = RichSol /\ b.frac = 0))
    IN IF frame.bal.err
         THEN frame.dev_info = [sol |-> Lamports(0, 0), rich |-> FALSE]
         ELSE /\ frame.dev_info.sol = b
              /\ frame.dev_info.rich <=> above
              /\ b = Lamports(5, 0) => ~frame.dev_info.rich
              /\ b = Lamports(5, 1000) => frame.dev_info.rich
              /\ pc = "send_message" => frame.msg_txt.rich = frame.dev_info.rich

\* An alert is ready for a developer holding 1000 lamports more than 5 SOL,
\* reported rich.
C12_Witness ==
  /\ pc = "send_message"
  /\ ~frame.bal.err /\ frame.bal.value = Lamports(5, 1000)
  /\ frame.dev_info.rich /\ frame.msg_txt.rich

\* The three enrichment calls of lines 141, 143 and 148.
Enrichers == {"fetch_metadata", "get_dex_info", "dev_check"}
\* Those the handling in hand has called so far (each is called by the await
\* that suspends on it) ...
EnrichStarted ==
  IF pc = "fetch_metadata" THEN {"fetch_metadata"}
  ELSE IF pc = "get_dex_info" THEN {"fetch_metadata", "get_dex_info"}
  ELSE IF pc \in {"dev_check", "send_message"} THEN Enrichers
  ELSE {}
\* ... and those that have returned to it.
EnrichDone ==
  IF pc = "get_dex_info" THEN {"fetch_metadata"}
  ELSE IF pc = "dev_check" THEN {"fetch_metadata", "get_dex_info"}
  ELSE IF pc = "send_message" THEN Enrichers
  ELSE {}

\* C13: the three enrichment calls of an event run side by side (while one is
\* pending the other two have been started too) and all three have returned
\* when the social filter of line 146 decides.
C13_FetchesJoinBeforeFilter ==
  [][ /\ pc' \in Enrichers => EnrichStarted' = Enrichers
      /\ (pc = "get_dex_info" /\ pc' # pc)
           => Enrichers \subseteq (EnrichDone \cup {"get_dex_info"}) ]_vars

\* C14: the Telegram and the Discord link of an event are the market-data
\* value when it is not empty and the metadata-derived one otherwise; the
\* event passes line 146 exactly when one of the two is not empty or
\* require_socials is false; the alert carries the same two links.
C14_FinalLinksAndFilter ==
  [][ /\ (pc = "get_dex_info" /\ pc' = "dev_check")
           => LET dex_tg == Get(frame'.dex, "tg", "")
                  dex_dc == Get(frame'.dex, "discord", "")
              IN /\ frame'.tg = IF dex_tg # "" THEN dex_tg ELSE frame.socials_meta.tg
                 /\ frame'.dc = IF dex_dc # "" THEN dex_dc
                                ELSE frame.socials_meta.discord
                 /\ (frame'.tg # "" \/ frame'.dc # "" \/ ~require_socials)
      /\ (pc = "get_dex_info" /\ pc' = "recv")
           => /\ Last(outcomes').res = "filtered"
              /\ require_socials
              /\ ~Last(outcomes').links
              /\ frame.socials_meta.tg = "" /\ frame.socials_meta.discord = ""
      /\ (pc = "dev_check" /\ pc' = "send_message")
           => frame'.msg_txt.tg = frame.tg /\ frame'.msg_txt.dc = frame.dc ]_vars

\* An alert is ready for an event with a Discord link in its metadata and
\* another in its market data, carrying the market-data one, and the metadata
\* Telegram link, the market data having none.
C14_Witness ==
  /\ pc = "send_message"
  /\ frame.socials_meta.discord # "" /\ Get(frame.dex, "discord", "") # ""
  /\ frame.socials_meta.discord # frame.dex.discord
  /\ frame.msg_txt.dc = frame.dex.discord
  /\ Get(frame.dex, "tg", "") = "" /\ frame.socials_meta.tg # ""
  /\ frame.msg_txt.tg = frame.socials_meta.tg

\* extract_socials has returned for the event in hand.
SocialsExtracted ==
  \/ pc \in {"get_dex_info", "dev_check", "send_message"}
  \/ frame.outcome \in {"format_error", "send_failed"}

\* C15: a link of extract_socials is the extensions value of the metadata
\* when there is one and it is not empty, whatever the description holds; a
\* word of the description is the link only when the extensions value is
\* missing or empty (the first word holding the pattern, if any does).
C15_ExtensionsTakePrecedence ==
  SocialsExtracted =>
    LET ext == Get(frame.meta, "extensions", EmptyDict)
        ext_tg == Get(ext, "telegram", "")
        ext_dc == Get(ext, "discord", "")
        words == Get(frame.meta, "description", JText(<<>>)).words
        Hits(subs) == {i \in 1..Len(words) :
                         \E sub \in subs : Contains(Lower(words[i]), sub)}
        FromDesc(link, subs) ==
          IF Hits(subs) = {} THEN link = ""
          ELSE \E i \in Hits(subs) :
                 link = Lower(words[i]) /\ \A j \in Hits(subs) : i <= j
    IN /\ ext_tg # "" => frame.socials_meta.tg = ext_tg
       /\ ext_tg = "" => FromDesc(frame.socials_meta.tg, {"t.me"})
       /\ ext_dc # "" => frame.socials_meta.discord = ext_dc
       /\ ext_dc = "" => FromDesc(frame.socials_meta.discord,
                                  {"discord.gg", "discord.com"})

\* The metadata names a Telegram handle in its extensions and another in its
\* description, and a Discord invite in its description only (the extensions
\* value is empty): the extensions handle and the description's invite result.
C15_Witness ==
  /\ pc = "get_dex_info"
  /\ Get(Get(frame.meta, "extensions", EmptyDict), "telegram", "") = "t.me/ext"
  /\ Get(Get(frame.meta, "extensions", EmptyDict), "discord", "x") = ""
  /\ Get(frame.meta, "description", JText(<<>>)).words = <<"T.me/Foo", "discord.com/inv">>
  /\ frame.socials_meta.tg = "t.me/ext"
  /\ frame.socials_meta.discord = "discord.com/inv"

\* C16: only the authorized user's commands act.  A step flips
\* require_socials only as that user's toggle, answered in the user's chat;
\* a step that answers a command answers the authorized user, leaves
\* seen_tokens and the listener alone, and leaves require_socials alone too
\* unless the command is the toggle; no answer ever goes to another user.
C16_CommandsFrame ==
  [][ /\ require_socials' # require_socials
           => /\ answer' = [to |-> YOUR_ID, cmd |-> "socials"]
              /\ answers' = answers + 1
              /\ seen_tokens' = seen_tokens
      /\ answers' # answers
           => /\ answers' = answers + 1
              /\ answer'.to = YOUR_ID
              /\ answer'.cmd \in {"start", "status", "socials"}
              /\ answer'.cmd = "socials" => require_socials' = ~require_socials
              /\ answer'.cmd # "socials" => require_socials' = require_socials
              /\ UNCHANGED <<pc, exc, frame, seen_tokens, sent, outcomes, fetches,
                             started>>
      /\ answers' = answers => answer' = answer
      /\ answer'.to \in {NoAnswer.to, YOUR_ID} ]_vars

\* The authorized user toggled the filter off, and was answered, while an
\* event was in hand and its identifier in seen_tokens.
C16_Witness ==
  /\ answers = 1
  /\ answer = [to |-> YOUR_ID, cmd |-> "socials"]
  /\ ~require_socials
  /\ InFlight /\ seen_tokens # {}

\* C18: line 146 decides on the require_socials in force when it runs, after
\* fetch_metadata and get_dex_info have returned: the event is dropped exactly
\* when that value is true and the event has no link, whatever the value was
\* when the message was taken or the identifier inserted.
C18_FilterReadsFlagAtDecision ==
  [][ (pc = "get_dex_info" /\ pc' # pc)
        => LET links == IF pc' = "recv" THEN Last(outcomes').links
                        ELSE frame'.tg # "" \/ frame'.dc # ""
           IN /\ pc' \in {"recv", "dev_check"}
              /\ pc' = "recv" <=> (require_socials /\ ~links) ]_vars

\* An event with no link, taken while require_socials was true, has passed
\* line 146 and its alert is ready: the filter was toggled off while its
\* fetches were pending.
C18_Witness ==
  /\ pc = "send_message"
  /\ frame.rs_recv /\ ~require_socials
  /\ frame.tg = "" /\ frame.dc = ""

\* C17: the listener hands the creation messages to handle_create in arrival
\* order and drops none: the calls are in increasing arrival number, every
\* creation message taken so far has had its call, and only taken messages
\* have.
C17_InOrderNoneDropped ==
  LET taken == Len(outcomes) + (IF InFlight THEN 1 ELSE 0) IN
  /\ \A i, j \in 1..Len(started) : i < j => started[i] < started[j]
  /\ \A i \in 1..Len(started) : started[i] \in 1..taken
  /\ \A k \in 1..Len(outcomes) :
       outcomes[k].create => \E i \in 1..Len(started) : started[i] = k
  /\ InFlight => (frame.create /\ started # <<>> /\ Last(started) = taken)

\* Three messages were taken, the second not a creation message: the first
\* and the third were handed to handle_create, in that order.
C17_Witness ==
  /\ Len(outcomes) = 3
  /\ outcomes[1].create /\ ~outcomes[2].create /\ outcomes[3].create
  /\ started = <<1, 3>>

====
